---- MODULE Spec2Model ----
(***************************************************************************)
(* A model of scripts/prepare_releases.py (class ReleasePreparator): the   *)
(* semantic-version arithmetic, the release-identity derivation, the       *)
(* release-notes commit summary and the draft publisher that drives the    *)
(* GitHub CLI.  Python strings are TLC strings (Len, \o and SubSeq work on *)
(* them); the GitHub release list, the temporary files and the external    *)
(* calls an operation makes are the state.                                 *)
(***************************************************************************)
EXTENDS Integers, Sequences, FiniteSets, TLC

VARIABLES
    version_in,   \* the string handed to parse_version / calculate_next_versions
    version_out,  \* what the last version operation returned or raised
    notes_in,     \* the arguments and the template file of generate_release_notes
    notes_out,    \* what generate_release_notes returned or raised, and its locals
    use_pypi,     \* self.use_pypi (with self.pypi_manager set) after __init__
    releases,     \* the repository's releases on GitHub, newest first
    temp_files,   \* the number of temporary notes files on disk
    pc,           \* where the running operation stands: the external call it makes next
    frame,        \* the arguments and locals of the running (or last) operation
    prev,         \* the arguments of the create_or_update_draft call just before it
    outcome,      \* what the last operation returned or raised
    runs          \* the number of pipeline runs started

version_vars == <<version_in, version_out>>

notes_vars == <<notes_in, notes_out>>

run_vars == <<use_pypi, releases, temp_files, pc, frame, prev, outcome, runs>>

vars == <<version_in, version_out, notes_in, notes_out,
          use_pypi, releases, temp_files, pc, frame, prev, outcome, runs>>

(***************************************************************************)
(* Bounds of the model.                                                    *)
(***************************************************************************)
\* longest version string handed to the version operations
MaxVersionLen == 6

\* longest commit list handed to generate_release_notes
MaxCommits == 9

\* most releases the repository holds
MaxReleases == 3

\* most releases the repository holds before the first operation
MaxInitReleases == 2

\* most temporary files left on disk
MaxTempFiles == 1

\* most pipeline runs in a row
MaxRuns == 1

(***************************************************************************)
(* Characters and decimal conversion.                                      *)
(***************************************************************************)
\* the characters version strings are drawn from: digits (9 carries into a
\* second digit), the separator, and the character that starts a suffix
Alphabet == {"0", "1", "9", ".", "-"}

DigitChars == <<"0", "1", "2", "3", "4", "5", "6", "7", "8", "9">>

CharAt(s, i) == SubSeq(s, i, i)

\* \d of the pattern, on the characters of the model
IsDigit(c) == \E d \in 1..10 : DigitChars[d] = c

DigitValue(c) == (CHOOSE d \in 1..10 : DigitChars[d] = c) - 1

\* int(text) for a non-empty string of digits
RECURSIVE StrToInt(_)
StrToInt(s) ==
    IF Len(s) = 0 THEN 0
    ELSE 10 * StrToInt(SubSeq(s, 1, Len(s) - 1)) + DigitValue(CharAt(s, Len(s)))

\* f"{n}" for a non-negative integer
RECURSIVE IntToStr(_)
IntToStr(n) ==
    IF n < 10 THEN DigitChars[n + 1]
    ELSE IntToStr(n \div 10) \o DigitChars[(n % 10) + 1]

\* the position after the longest run of digits of s that starts at i (\d+ is greedy)
RECURSIVE DigitRunEnd(_, _)
DigitRunEnd(s, i) ==
    IF i <= Len(s) /\ IsDigit(CharAt(s, i)) THEN DigitRunEnd(s, i + 1) ELSE i

(***************************************************************************)
(* parse_version and calculate_next_versions.                              *)
(***************************************************************************)
\* a tightened pattern, ^(\d+)\.(\d+)\.(\d+)$, that rejects any suffix
VersionMatch_Anchored(version) ==
    LET e1 == DigitRunEnd(version, 1)
        e2 == DigitRunEnd(version, e1 + 1)
        e3 == DigitRunEnd(version, e2 + 1)
    IN  IF /\ e1 > 1
           /\ e1 <= Len(version) /\ CharAt(version, e1) = "."
           /\ e2 > e1 + 1
           /\ e2 <= Len(version) /\ CharAt(version, e2) = "."
           /\ e3 > e2 + 1
           /\ e3 = Len(version) + 1
        THEN [matched |-> TRUE,
              groups |-> <<SubSeq(version, 1, e1 - 1),
                           SubSeq(version, e1 + 1, e2 - 1),
                           SubSeq(version, e2 + 1, e3 - 1)>>]
        ELSE [matched |-> FALSE, groups |-> <<>>]

\* the match of ^(\d+)\.(\d+)\.(\d+) at the start of the string: the three groups,
\* or no match
VersionMatch(version) ==
    LET e1 == DigitRunEnd(version, 1)
        e2 == DigitRunEnd(version, e1 + 1)
        e3 == DigitRunEnd(version, e2 + 1)
    IN  IF /\ e1 > 1
           /\ e1 <= Len(version) /\ CharAt(version, e1) = "."
           /\ e2 > e1 + 1
           /\ e2 <= Len(version) /\ CharAt(version, e2) = "."
           /\ e3 > e2 + 1
        THEN [matched |-> TRUE,
              groups |-> <<SubSeq(version, 1, e1 - 1),
                           SubSeq(version, e1 + 1, e2 - 1),
                           SubSeq(version, e2 + 1, e3 - 1)>>]
        ELSE [matched |-> FALSE, groups |-> <<>>]

\* parse_version: the triple of integers, or ValueError("Invalid version format")
parse_version(version) ==
    LET match == VersionMatch(version)
    IN  IF ~match.matched
        THEN [raised |-> "ValueError", value |-> <<>>]
        ELSE [raised |-> "none",
              value |-> <<StrToInt(match.groups[1]),
                          StrToInt(match.groups[2]),
                          StrToInt(match.groups[3])>>]

\* a slip that keeps the patch number when the minor number is bumped
NextVersionsOf_KeepPatch(major, minor, patch) ==
    [patch |-> IntToStr(major) \o "." \o IntToStr(minor) \o "." \o IntToStr(patch + 1),
     minor |-> IntToStr(major) \o "." \o IntToStr(minor + 1) \o "." \o IntToStr(patch),
     major |-> IntToStr(major + 1) \o ".0.0"]

\* the dictionary calculate_next_versions builds from the parsed triple
NextVersionsOf(major, minor, patch) ==
    [patch |-> IntToStr(major) \o "." \o IntToStr(minor) \o "." \o IntToStr(patch + 1),
     minor |-> IntToStr(major) \o "." \o IntToStr(minor + 1) \o ".0",
     major |-> IntToStr(major + 1) \o ".0.0"]

\* calculate_next_versions: parse_version's error propagates
calculate_next_versions(current_version) ==
    LET parsed == parse_version(current_version)
    IN  IF parsed.raised # "none"
        THEN [raised |-> parsed.raised, value |-> <<>>]
        ELSE [raised |-> "none",
              value |-> NextVersionsOf(parsed.value[1], parsed.value[2], parsed.value[3])]

(***************************************************************************)
(* Text helpers of the notes renderer and the publisher.                   *)
(***************************************************************************)
LowerLetters == "abcdefghijklmnopqrstuvwxyz"

UpperLetters == "ABCDEFGHIJKLMNOPQRSTUVWXYZ"

IsLower(c) == \E p \in 1..26 : CharAt(LowerLetters, p) = c

IsUpper(c) == \E p \in 1..26 : CharAt(UpperLetters, p) = c

ToUpper(c) ==
    IF IsLower(c)
    THEN CharAt(UpperLetters, CHOOSE p \in 1..26 : CharAt(LowerLetters, p) = c)
    ELSE c

ToLower(c) ==
    IF IsUpper(c)
    THEN CharAt(LowerLetters, CHOOSE p \in 1..26 : CharAt(UpperLetters, p) = c)
    ELSE c

\* str.replace(old, new) for a one-character old
RECURSIVE Replace(_, _, _)
Replace(s, old, new) ==
    IF Len(s) = 0 THEN ""
    ELSE (IF CharAt(s, 1) = old THEN new ELSE CharAt(s, 1))
             \o Replace(SubSeq(s, 2, Len(s)), old, new)

\* str.title(): a letter is upper-cased after a non-letter (or at the start) and
\* lower-cased after a letter
RECURSIVE TitleFrom(_, _)
TitleFrom(s, after_letter) ==
    IF Len(s) = 0 THEN ""
    ELSE LET c == CharAt(s, 1)
             letter == IsLower(c) \/ IsUpper(c)
         IN  (IF after_letter THEN ToLower(c) ELSE ToUpper(c))
                 \o TitleFrom(SubSeq(s, 2, Len(s)), letter)

Title(s) == TitleFrom(s, FALSE)

\* sub in s
Contains(s, sub) ==
    \E p \in 1..(Len(s) - Len(sub) + 1) : SubSeq(s, p, p + Len(sub) - 1) = sub

\* s.startswith(prefix)
StartsWith(s, prefix) ==
    Len(s) >= Len(prefix) /\ SubSeq(s, 1, Len(prefix)) = prefix

\* sep.join(lines)
RECURSIVE Join(_, _)
Join(lines, sep) ==
    IF lines = <<>> THEN ""
    ELSE IF Len(lines) = 1 THEN lines[1]
    ELSE lines[1] \o sep \o Join(Tail(lines), sep)

(***************************************************************************)
(* generate_release_notes.  The bullet and the emoji of the source are     *)
(* written in ASCII ("*", "[rocket]", ...): the module's strings are       *)
(* ASCII.  None and the empty string, which the source tells apart only by *)
(* truth value, are both "".                                               *)
(***************************************************************************)
\* commits[:8] and the "more commits" threshold
PreviewLimit == 8

\* len(msg) > 60
MessageLimit == 60

\* msg[:57]
MessageKeep == 57

ReleaseTypeKeys ==
    {"patch", "minor", "major", "beta-patch", "beta-minor", "beta-major"}

\* release_descriptions.get(release_type, "Production Release")
ReleaseDescription(release_type) ==
    CASE release_type = "patch" ->
             "Production Release (Patch) - Bug fixes and minor improvements"
      [] release_type = "minor" ->
             "Production Release (Minor) - New features, backward compatible"
      [] release_type = "major" ->
             "Production Release (Major) - Breaking changes and major updates"
      [] release_type = "beta-patch" -> "Beta Release (Patch) - Testing bug fixes"
      [] release_type = "beta-minor" -> "Beta Release (Minor) - Testing new features"
      [] release_type = "beta-major" -> "Beta Release (Major) - Testing breaking changes"
      [] OTHER -> "Production Release"

\* a truncation that keeps 60 characters before the ellipsis
RenderMessage_KeepLimit(msg) ==
    IF Len(msg) > MessageLimit THEN SubSeq(msg, 1, MessageLimit) \o "..." ELSE msg

\* the message of a commit as the summary shows it
RenderMessage(msg) ==
    IF Len(msg) > MessageLimit THEN SubSeq(msg, 1, MessageKeep) \o "..." ELSE msg

\* one bullet of the summary
CommitLine(commit) ==
    "* " \o RenderMessage(commit.message) \o " (" \o commit.sha \o ")"

\* a slip that previews one commit fewer than it counts as shown
CommitLines_OffByOne(commits) ==
    LET shown == IF Len(commits) > PreviewLimit - 1 THEN PreviewLimit - 1
                 ELSE Len(commits)
    IN  [i \in 1..shown |-> CommitLine(commits[i])]

\* commit_lines: a bullet for each of commits[:8], in order
CommitLines(commits) ==
    LET shown == IF Len(commits) > PreviewLimit THEN PreviewLimit ELSE Len(commits)
    IN  [i \in 1..shown |-> CommitLine(commits[i])]

\* commit_summary
CommitSummary(commits) ==
    IF commits # <<>>
    THEN "Recent Changes:\n\n" \o Join(CommitLines(commits), "\n")
             \o (IF Len(commits) > PreviewLimit
                 THEN "\n* ... and " \o IntToStr(Len(commits) - PreviewLimit)
                          \o " more commits"
                 ELSE "")
    ELSE "* See commit history for detailed changes"

\* a template is a sequence of literal text and {placeholders}
Lit(text) == [field |-> FALSE, text |-> text]

Field(name) == [field |-> TRUE, text |-> name]

\* get_default_template: the placeholders of the built-in text in their order, the
\* literal text between them shortened
DefaultTemplate ==
    <<Lit("## [rocket] ADRI Validator v"), Field("version"), Lit(" - "),
      Field("release_type"), Lit(" Release\n* Type: "), Field("release_description"),
      Lit("\n* Previous Version: "), Field("previous_version"),
      Lit("\n* Installation: pip install adri=="), Field("version"),
      Lit("\n### What's New\n\n"), Field("commit_summary"),
      Lit("\n* PyPI Package https://pypi.org/project/adri/"), Field("version"),
      Lit("/\n* TestPyPI Package https://test.pypi.org/project/adri/"),
      Field("version"), Lit("/\n")>>

\* load_release_template: the file templates/release-notes/<name>.md when it exists
\* (template_file is its content, <<>> when there is none), else the default
load_release_template(template_file) ==
    IF template_file # <<>> THEN template_file ELSE DefaultTemplate

\* str.format(**values): KeyError on a placeholder that is not supplied
RECURSIVE Format(_, _)
Format(template, values) ==
    IF template = <<>> THEN [raised |-> "none", value |-> ""]
    ELSE LET seg == template[1]
             rest == Format(Tail(template), values)
         IN  IF seg.field /\ seg.text \notin DOMAIN values
             THEN [raised |-> "KeyError", value |-> ""]
             ELSE IF rest.raised # "none" THEN rest
             ELSE [raised |-> "none",
                   value |-> (IF seg.field THEN values[seg.text] ELSE seg.text)
                                 \o rest.value]

\* generate_release_notes: the rendered notes, with the locals the summary is built in
generate_release_notes(version, release_type, previous_version, commits, template_file) ==
    LET template == load_release_template(template_file)
        rendered == Format(template,
            [version |-> version,
             release_type |-> Title(Replace(release_type, "-", " ")),
             release_description |-> ReleaseDescription(release_type),
             previous_version |-> IF previous_version # "" THEN previous_version
                                  ELSE "None",
             commit_summary |-> CommitSummary(commits)])
    IN  [raised |-> rendered.raised,
         value |-> rendered.value,
         commit_lines |-> IF commits # <<>> THEN CommitLines(commits) ELSE <<>>,
         commit_summary |-> CommitSummary(commits)]

(***************************************************************************)
(* generate_release_notes applied to bounded inputs.                       *)
(***************************************************************************)
RECURSIVE Repeat(_, _)
Repeat(s, n) == IF n = 0 THEN "" ELSE s \o Repeat(s, n - 1)

\* a short message, one of exactly 60 characters and one of 61
CommitPool ==
    {[sha |-> "a1b2c3d4", message |-> "Fix typo"],
     [sha |-> "0badc0de", message |-> Repeat("0123456789", 6)],
     [sha |-> "feedbeef", message |-> Repeat("abcdefghij", 6) \o "k"]}

CommitLists == UNION {[1..n -> CommitPool] : n \in 0..MaxCommits}

\* template files: none, one that uses supplied placeholders, one that names a
\* placeholder the renderer does not supply
TemplateFiles ==
    {<<>>,
     <<Lit("# "), Field("version"), Lit("\n"), Field("commit_summary")>>,
     <<Lit("# "), Field("version"), Lit(" by "), Field("author")>>}

NotesInputs ==
    [version : {"1.1.0"}, release_type : {"minor"}, previous_version : {"1.0.9"},
     commits : CommitLists, template_file : {<<>>}]
    \cup
    [version : {"1.1.0", "1.0.10-beta.1"},
     release_type : ReleaseTypeKeys \cup {"hotfix"},
     previous_version : {"1.0.9", ""},
     commits : {<<>>, <<CHOOSE c \in CommitPool : c.message = "Fix typo">>},
     template_file : TemplateFiles]

NotesInit ==
    /\ notes_in \in NotesInputs
    /\ notes_out = [op |-> "none"]

GenerateReleaseNotes ==
    /\ notes_out.op = "none"
    /\ notes_out' = [op |-> "generate_release_notes"]
                        @@ generate_release_notes(notes_in.version, notes_in.release_type,
                               notes_in.previous_version, notes_in.commits,
                               notes_in.template_file)
    /\ UNCHANGED notes_in

IdleVersion ==
    /\ version_in = ""
    /\ version_out = [op |-> "none", raised |-> "none", value |-> <<>>]

IdleNotes ==
    /\ notes_in = [version |-> "", release_type |-> "", previous_version |-> "",
                   commits |-> <<>>, template_file |-> <<>>]
    /\ notes_out = [op |-> "none"]

(***************************************************************************)
(* GitHub's releases as the gh CLI lists and changes them.  A draft is     *)
(* created at the head of the list (gh lists the newest first); GitHub     *)
(* refuses a release whose tag a published release already bears, and gh   *)
(* resolves a tag to the published release of that tag, else to the first  *)
(* draft that bears it.                                                    *)
(***************************************************************************)
Release(tag, name, draft, prerelease, body) ==
    [tagName |-> tag, name |-> name, isDraft |-> draft,
     isPrerelease |-> prerelease, body |-> body]

\* gh release list --json tagName,name,isDraft
Listing(rs) ==
    [i \in 1..Len(rs) |->
        [tagName |-> rs[i].tagName, name |-> rs[i].name, isDraft |-> rs[i].isDraft]]

Least(S) == CHOOSE m \in S : \A x \in S : m <= x

\* the release a tag names for gh release edit / delete, 0 when there is none
FindRelease(rs, tag) ==
    LET published == {i \in 1..Len(rs) : rs[i].tagName = tag /\ ~rs[i].isDraft}
        drafts == {i \in 1..Len(rs) : rs[i].tagName = tag /\ rs[i].isDraft}
    IN  IF published # {} THEN Least(published)
        ELSE IF drafts # {} THEN Least(drafts)
        ELSE 0

\* gh release create <tag> --title <title> --notes-file <file> --draft [--prerelease]
GhCreate(rs, tag, title, body, prerelease) ==
    <<Release(tag, title, TRUE, prerelease, body)>> \o rs

\* gh release edit <tag> --title <title> --notes-file <file> --draft [--prerelease]:
\* without --prerelease the flag of the release is left as it is
GhEdit(rs, tag, title, body, prerelease) ==
    [rs EXCEPT ![FindRelease(rs, tag)] =
        Release(tag, title, TRUE, IF prerelease THEN TRUE ELSE @.isPrerelease, body)]

\* gh release delete <tag> --yes
GhDelete(rs, tag) ==
    LET t == FindRelease(rs, tag)
    IN  SubSeq(rs, 1, t - 1) \o SubSeq(rs, t + 1, Len(rs))

\* whether GitHub can carry the command out
GhCan(command, rs, tag) ==
    CASE command = "create" -> \A i \in 1..Len(rs) : rs[i].tagName = tag => rs[i].isDraft
      [] command \in {"edit", "delete"} -> FindRelease(rs, tag) # 0
      [] OTHER -> TRUE

\* what subprocess.run does: the command succeeds, it exits with a failure
\* (CalledProcessError under check=True), or it cannot be run at all (OSError)
SubprocessResults == {"ok", "fail", "raise"}

\* a run_gh_command that lets CalledProcessError through
run_gh_command_NoCatch(result) ==
    CASE result = "ok" -> "output"
      [] result = "fail" -> "raise"
      [] OTHER -> "raise"

\* run_gh_command: the output of the command, "" for a command that failed (a
\* warning is printed); any other exception goes to the caller
run_gh_command(result) ==
    CASE result = "ok" -> "output"
      [] result = "fail" -> "empty"
      [] OTHER -> "raise"

(***************************************************************************)
(* The operations, each a sequence of steps: a step is one external call   *)
(* with the code that follows it up to the next external call.             *)
(***************************************************************************)
ChangeTypes == {"patch", "minor", "major"}

NoVersions == [patch |-> "", minor |-> "", major |-> ""]

NoResult ==
    [version |-> "", tag_name |-> "", title |-> "", release_type |-> "",
     is_prerelease |-> FALSE]

NoFrame ==
    [op |-> "none",
     change_type |-> "", beta |-> FALSE,
     resolved |-> FALSE, current_version |-> "", next_versions |-> NoVersions,
     commits |-> <<>>,
     cleanup |-> "none", listing |-> <<>>, i |-> 0, attempted |-> {}, failed |-> {},
     release_type |-> "", version |-> "", tag_name |-> "", title |-> "", body |-> "",
     is_prerelease |-> FALSE,
     before |-> <<>>, existing_draft |-> FALSE,
     \* prepare_all_releases: the template files on disk and the number of release
     \* types the loop has dealt with
     templates |-> <<>>, k |-> 0,
     \* history: the stages entered, whether an external call was made, and whether
     \* every gh release command and every write of a notes file succeeded (kept
     \* for a direct call of the publisher and for prepare_all_releases)
     stages |-> {}, external |-> FALSE, draft_ok |-> TRUE]

NoOutcome == [op |-> "none", raised |-> "none", message |-> "", result |-> NoResult]

\* the arguments of a direct create_or_update_draft call, kept when the next
\* operation starts
Summary(f) ==
    IF f.op = "create_or_update_draft"
    THEN [op |-> f.op, tag_name |-> f.tag_name, title |-> f.title, body |-> f.body,
          is_prerelease |-> f.is_prerelease, draft_ok |-> f.draft_ok,
          drafts_before |-> Cardinality({i \in 1..Len(f.before) :
                                /\ f.before[i].isDraft
                                /\ f.before[i].tagName = f.tag_name})]
    ELSE [op |-> "none", tag_name |-> "", title |-> "", body |-> "",
          is_prerelease |-> FALSE, draft_ok |-> TRUE, drafts_before |-> 0]

Raise(f, type, message) ==
    [pc |-> "idle", frame |-> f,
     outcome |-> [op |-> f.op, raised |-> type, message |-> message,
                  result |-> NoResult]]

Return(f, result) ==
    [pc |-> "idle", frame |-> f,
     outcome |-> [op |-> f.op, raised |-> "none", message |-> "", result |-> result]]

\* the operation goes on: it has no outcome yet
Goto(label, f) == [pc |-> label, frame |-> f, outcome |-> NoOutcome]

Apply(next) ==
    /\ pc' = next.pc
    /\ frame' = next.frame
    /\ outcome' = next.outcome

\* an external call was made
Called(f) == [f EXCEPT !.external = TRUE]

\* an external call of create_or_update_draft was made; for a direct call of the
\* publisher, whether every one of them succeeded
DraftCalled(f, ok) ==
    [f EXCEPT !.external = TRUE,
              !.draft_ok = IF f.op \in {"create_or_update_draft", "prepare_all_releases"}
                           THEN @ /\ ok ELSE @]

\* an external call of cleanup_old_drafts was made
CleanupCalled(f, ok) ==
    [f EXCEPT !.external = TRUE,
              !.draft_ok = IF f.op = "prepare_all_releases" THEN @ /\ ok ELSE @]

\* a stage of the pipeline was entered
Entered(f, stage) == [f EXCEPT !.stages = @ \cup {stage}]

\* prepare_release_by_type up to its first external call: sync_version_json and
\* get_current_version_from_pypi return at once without the PyPI manager
FirstStep(f, sync_version) ==
    IF sync_version /\ use_pypi THEN Goto("sync", f)
    ELSE IF use_pypi THEN Goto("pypi_production", f)
    ELSE Goto("pyproject", f)

\* a pipeline that goes on without a version when every source failed
AfterNoVersion_GoesOn(f, type, message) ==
    Goto("commits_api", Entered(f, "calculate_next_versions"))

\* get_current_version_from_pyproject raised: nothing in prepare_release_by_type
\* catches it
AfterNoVersion(f, type, message) == Raise(f, type, message)

\* prepare_release_by_type and prepare_all_releases from the current version to the
\* commit listing: calculate_next_versions, then, in prepare_release_by_type only,
\* the validation of the change type
AfterVersion(f, current_version) ==
    LET next_versions == calculate_next_versions(current_version)
        f1 == [Entered(f, "calculate_next_versions")
                  EXCEPT !.resolved = TRUE, !.current_version = current_version]
    IN  IF next_versions.raised # "none"
        THEN Raise(f1, next_versions.raised, "Invalid version format")
        ELSE IF /\ f.op = "prepare_release_by_type"
                /\ f.change_type \notin DOMAIN next_versions.value
        THEN Raise([f1 EXCEPT !.next_versions = next_versions.value],
                   "ValueError", "Invalid change type")
        ELSE Goto("commits_api",
                  Entered([f1 EXCEPT !.next_versions = next_versions.value],
                          "get_commits_since_last_release"))

\* a selection that looks at the name only
IsOldDraft_ByNameOnly(release) == Contains(release.name, "ADRI v")

\* release.get("isDraft") and "ADRI v" in release.get("name", "")
IsOldDraft(release) == release.isDraft /\ Contains(release.name, "ADRI v")

\* the next release of the listing, from position from on, that cleanup deletes
NextOldDraft(listing, from) ==
    LET found == {i \in from..Len(listing) : IsOldDraft(listing[i])}
    IN  IF found = {} THEN 0 ELSE Least(found)

\* cleanup_old_drafts is over: its caller goes on
CleanupReturn(f, how) ==
    LET f1 == [f EXCEPT !.cleanup = how]
    IN  IF f.op = "cleanup_old_drafts" THEN Return(f1, NoResult)
        ELSE IF f.op = "prepare_all_releases" THEN Goto("render_all", f1)
        ELSE Goto("render", f1)

\* the loop of cleanup_old_drafts from position from on
CleanupLoop(f, from) ==
    LET i == NextOldDraft(f.listing, from)
    IN  IF i = 0 THEN CleanupReturn(f, "returned")
        ELSE Goto("cleanup_delete", [f EXCEPT !.i = i])

\* an identity whose beta tag is built from the decorated version
BuildIdentity_TagOfVersion(change_type, next_versions, beta) ==
    IF beta
    THEN LET base_version == next_versions[change_type]
             version == base_version \o "-beta.1"
         IN  [release_type |-> "beta-" \o change_type,
              version |-> version,
              tag_name |-> "candidate-beta-" \o change_type \o "-v" \o version,
              title |-> "[test tube] ADRI v" \o version \o " - Beta "
                            \o Title(change_type) \o " (DRAFT)",
              is_prerelease |-> TRUE]
    ELSE LET version == next_versions[change_type]
         IN  [release_type |-> change_type,
              version |-> version,
              tag_name |-> "candidate-" \o change_type \o "-v" \o version,
              title |-> "[package] ADRI v" \o version \o " - "
                            \o Title(change_type) \o " Release (DRAFT)",
              is_prerelease |-> FALSE]

\* emoji.get(change_type, package)
Emoji(change_type) ==
    CASE change_type = "patch" -> "[wrench]"
      [] change_type = "minor" -> "[rocket]"
      [] change_type = "major" -> "[collision]"
      [] OTHER -> "[package]"

\* prepare_release_by_type: release type, version, tag, title and pre-release flag
BuildIdentity(change_type, next_versions, beta) ==
    IF beta
    THEN LET release_type == "beta-" \o change_type
             base_version == next_versions[change_type]
             version == base_version \o "-beta.1"
         IN  [release_type |-> release_type,
              version |-> version,
              tag_name |-> "candidate-" \o release_type \o "-v" \o base_version,
              title |-> "[test tube] ADRI v" \o version \o " - Beta "
                            \o Title(change_type) \o " (DRAFT)",
              is_prerelease |-> TRUE]
    ELSE LET version == next_versions[change_type]
         IN  [release_type |-> change_type,
              version |-> version,
              tag_name |-> "candidate-" \o change_type \o "-v" \o version,
              title |-> Emoji(change_type) \o " ADRI v" \o version \o " - "
                            \o Title(change_type) \o " Release (DRAFT)",
              is_prerelease |-> FALSE]

\* s.replace(old, new) for a text old of any length
RECURSIVE ReplaceText(_, _, _)
ReplaceText(s, old, new) ==
    IF Len(s) < Len(old) THEN s
    ELSE IF SubSeq(s, 1, Len(old)) = old
    THEN new \o ReplaceText(SubSeq(s, Len(old) + 1, Len(s)), old, new)
    ELSE CharAt(s, 1) \o ReplaceText(SubSeq(s, 2, Len(s)), old, new)

\* release_types of prepare_all_releases: release type, title template, pre-release
release_types ==
    <<[release_type |-> "patch", is_prerelease |-> FALSE,
       title_template |-> <<Lit("[wrench] ADRI v"), Field("version"),
                            Lit(" - Patch Release (DRAFT)")>>],
      [release_type |-> "minor", is_prerelease |-> FALSE,
       title_template |-> <<Lit("[rocket] ADRI v"), Field("version"),
                            Lit(" - Minor Release (DRAFT)")>>],
      [release_type |-> "major", is_prerelease |-> FALSE,
       title_template |-> <<Lit("[collision] ADRI v"), Field("version"),
                            Lit(" - Major Release (DRAFT)")>>],
      [release_type |-> "beta-patch", is_prerelease |-> TRUE,
       title_template |-> <<Lit("[test tube] ADRI v"), Field("version"),
                            Lit(" - Beta Patch (DRAFT)")>>],
      [release_type |-> "beta-minor", is_prerelease |-> TRUE,
       title_template |-> <<Lit("[test tube] ADRI v"), Field("version"),
                            Lit(" - Beta Minor (DRAFT)")>>],
      [release_type |-> "beta-major", is_prerelease |-> TRUE,
       title_template |-> <<Lit("[test tube] ADRI v"), Field("version"),
                            Lit(" - Beta Major (DRAFT)")>>]>>

NumReleaseTypes == Len(release_types)

\* an identity of the loop whose beta version is left undecorated
LoopIdentity_PlainVersion(entry, next_versions) ==
    LET release_type == entry.release_type
        base_type == ReplaceText(release_type, "beta-", "")
        version == next_versions[base_type]
    IN  [release_type |-> release_type,
         version |-> version,
         tag_name |-> "candidate-" \o release_type \o "-v" \o version,
         title |-> Format(entry.title_template, [version |-> version]).value,
         is_prerelease |-> entry.is_prerelease]

\* the body of the loop of prepare_all_releases up to the title: version, tag and
\* title of one entry of release_types
LoopIdentity(entry, next_versions) ==
    LET release_type == entry.release_type
        beta == StartsWith(release_type, "beta-")
        base_type == ReplaceText(release_type, "beta-", "")
        base_version == next_versions[base_type]
        version == IF beta THEN base_version \o "-beta.1" ELSE next_versions[release_type]
        tag_name == IF beta THEN "candidate-" \o release_type \o "-v" \o base_version
                    ELSE "candidate-" \o release_type \o "-v" \o version
    IN  [release_type |-> release_type,
         version |-> version,
         tag_name |-> tag_name,
         title |-> Format(entry.title_template, [version |-> version]).value,
         is_prerelease |-> entry.is_prerelease]

\* create_or_update_draft is over: prepare_release_by_type returns its dictionary,
\* prepare_all_releases goes to the next release type or returns after the sixth
DraftReturn(f) ==
    IF f.op = "create_or_update_draft" THEN Return(f, NoResult)
    ELSE IF f.op = "prepare_all_releases"
    THEN IF f.k + 1 < NumReleaseTypes
         THEN Goto("render_all", [f EXCEPT !.k = @ + 1])
         ELSE Return([f EXCEPT !.k = @ + 1], NoResult)
    ELSE Return(f, [version |-> f.version, tag_name |-> f.tag_name,
                    title |-> f.title, release_type |-> f.release_type,
                    is_prerelease |-> f.is_prerelease])

\* the versions the sources hold
ProductionVersion == "1.0.9"

TestpypiVersion == "1.0.9"

\* the version field of pyproject.toml: a semantic version, one that is not, or
\* an empty string
ManifestVersions == {"1.0.9", "1.0", ""}

\* the commits gh api and git log report
PipelineCommits == {<<[sha |-> "a1b2c3d4", message |-> "Fix typo"]>>}

(***************************************************************************)
(* Starting an operation.                                                  *)
(***************************************************************************)
StartCreateOrUpdateDraft(tag_name, title, body, prerelease) ==
    /\ pc = "idle"
    /\ Len(releases) < MaxReleases
    /\ prev' = Summary(frame)
    /\ Apply(Goto("draft_list",
                  [NoFrame EXCEPT !.op = "create_or_update_draft",
                                  !.tag_name = tag_name, !.title = title,
                                  !.body = body, !.is_prerelease = prerelease,
                                  !.stages = {"create_or_update_draft"},
                                  !.before = releases]))
    /\ UNCHANGED <<use_pypi, releases, temp_files, runs>>
    /\ UNCHANGED <<version_vars, notes_vars>>

StartCleanupOldDrafts ==
    /\ pc = "idle"
    /\ prev' = Summary(frame)
    /\ Apply(Goto("cleanup_list",
                  [NoFrame EXCEPT !.op = "cleanup_old_drafts",
                                  !.stages = {"cleanup_old_drafts"}]))
    /\ UNCHANGED <<use_pypi, releases, temp_files, runs>>
    /\ UNCHANGED <<version_vars, notes_vars>>

StartPrepareReleaseByType(change_type, beta, sync_version) ==
    /\ pc = "idle"
    /\ Len(releases) < MaxReleases
    /\ runs < MaxRuns
    /\ runs' = runs + 1
    /\ prev' = Summary(frame)
    /\ Apply(FirstStep([NoFrame EXCEPT !.op = "prepare_release_by_type",
                                       !.change_type = change_type,
                                       !.beta = beta],
                       sync_version))
    /\ UNCHANGED <<use_pypi, releases, temp_files>>
    /\ UNCHANGED <<version_vars, notes_vars>>

StartPrepareAllReleases(sync_version, templates) ==
    /\ pc = "idle"
    /\ Len(releases) < MaxReleases
    /\ runs < MaxRuns
    /\ runs' = runs + 1
    /\ prev' = Summary(frame)
    /\ Apply(FirstStep([NoFrame EXCEPT !.op = "prepare_all_releases",
                                       !.templates = templates],
                       sync_version))
    /\ UNCHANGED <<use_pypi, releases, temp_files>>
    /\ UNCHANGED <<version_vars, notes_vars>>

(***************************************************************************)
(* Version resolution: sync_version_json and get_current_version.          *)
(***************************************************************************)
\* self.pypi_manager.sync_version_json_with_pypi(dry_run=False); an exception is
\* caught and sync_version_json returns False
SyncVersionJson ==
    /\ pc = "sync"
    /\ \E result \in {"ok", "raise"} :
          Apply(Goto("pypi_production", Called(frame)))
    /\ UNCHANGED <<use_pypi, releases, temp_files, prev, runs>>
    /\ UNCHANGED <<version_vars, notes_vars>>

\* self.pypi_manager.get_current_production_version()
PypiProduction ==
    /\ pc = "pypi_production"
    /\ \E result \in {"version", "none", "raise"} :
          LET f == Called(frame)
          IN  Apply(CASE result = "version" -> AfterVersion(f, ProductionVersion)
                      [] result = "none" -> Goto("pypi_testpypi", f)
                      [] OTHER -> Goto("pyproject", f))
    /\ UNCHANGED <<use_pypi, releases, temp_files, prev, runs>>
    /\ UNCHANGED <<version_vars, notes_vars>>

\* self.pypi_manager.get_current_testpypi_version()
PypiTestpypi ==
    /\ pc = "pypi_testpypi"
    /\ \E result \in {"version", "none", "raise"} :
          LET f == Called(frame)
          IN  Apply(CASE result = "version" -> AfterVersion(f, TestpypiVersion)
                      [] OTHER -> Goto("pyproject", f))
    /\ UNCHANGED <<use_pypi, releases, temp_files, prev, runs>>
    /\ UNCHANGED <<version_vars, notes_vars>>

\* get_current_version_from_pyproject: with tomllib or tomli, a missing file is
\* FileNotFoundError and an unparsable one KeyError or a decode error; with the
\* line scan both are RuntimeError
Pyproject ==
    /\ pc = "pyproject"
    /\ \E result \in {"version", "missing", "unparsable"}, toml_parser \in BOOLEAN :
          LET f == Called(frame)
          IN  CASE result = "version" ->
                       \E version \in ManifestVersions : Apply(AfterVersion(f, version))
                [] result = "missing" ->
                       Apply(AfterNoVersion(f,
                           IF toml_parser THEN "FileNotFoundError" ELSE "RuntimeError",
                           IF toml_parser THEN "pyproject.toml not found"
                           ELSE "Could not parse version from pyproject.toml"))
                [] OTHER ->
                       Apply(AfterNoVersion(f,
                           IF toml_parser THEN "KeyError" ELSE "RuntimeError",
                           IF toml_parser THEN "version"
                           ELSE "Could not parse version from pyproject.toml"))
    /\ UNCHANGED <<use_pypi, releases, temp_files, prev, runs>>
    /\ UNCHANGED <<version_vars, notes_vars>>

(***************************************************************************)
(* get_commits_since_last_release.                                         *)
(***************************************************************************)
\* prepare_release_by_type has its commits and calls cleanup_old_drafts
AfterCommits(f, commits) ==
    Entered([f EXCEPT !.commits = commits], "cleanup_old_drafts")

\* gh api repos/:owner/:repo/commits: its lines when it prints any, else git log
CommitsApi ==
    /\ pc = "commits_api"
    /\ \E result \in SubprocessResults :
          LET f == Called(frame)
              output == run_gh_command(result)
          IN  CASE output = "output" ->
                       \E commits \in PipelineCommits :
                           Apply(Goto("cleanup_list", AfterCommits(f, commits)))
                [] output = "empty" -> Apply(Goto("git_log", f))
                [] OTHER -> Apply(Goto("cleanup_list", AfterCommits(f, <<>>)))
    /\ UNCHANGED <<use_pypi, releases, temp_files, prev, runs>>
    /\ UNCHANGED <<version_vars, notes_vars>>

\* git log --oneline -10 under check=True: any exception gives no commits
GitLog ==
    /\ pc = "git_log"
    /\ \E result \in SubprocessResults :
          LET f == Called(frame)
          IN  IF result = "ok"
              THEN \E commits \in PipelineCommits \cup {<<>>} :
                       Apply(Goto("cleanup_list", AfterCommits(f, commits)))
              ELSE Apply(Goto("cleanup_list", AfterCommits(f, <<>>)))
    /\ UNCHANGED <<use_pypi, releases, temp_files, prev, runs>>
    /\ UNCHANGED <<version_vars, notes_vars>>

(***************************************************************************)
(* cleanup_old_drafts.                                                     *)
(***************************************************************************)
\* gh release list; an empty output skips the loop, an exception is caught
CleanupList ==
    /\ pc = "cleanup_list"
    /\ \E result \in SubprocessResults :
          LET f == CleanupCalled(frame, result = "ok")
              output == run_gh_command(result)
          IN  CASE output = "output" ->
                       Apply(CleanupLoop([f EXCEPT !.listing = Listing(releases)], 1))
                [] output = "empty" -> Apply(CleanupReturn(f, "returned"))
                [] OTHER -> Apply(CleanupReturn(f, "aborted"))
    /\ UNCHANGED <<use_pypi, releases, temp_files, prev, runs>>
    /\ UNCHANGED <<version_vars, notes_vars>>

\* gh release delete <tag> --yes for the old draft at position i of the listing
CleanupDelete ==
    /\ pc = "cleanup_delete"
    /\ \E result \in SubprocessResults :
          LET tag_name == frame.listing[frame.i].tagName
              f == [CleanupCalled(frame, result = "ok")
                       EXCEPT !.attempted = @ \cup {frame.i},
                              !.failed = IF result = "fail" THEN @ \cup {frame.i} ELSE @]
              output == run_gh_command(result)
          IN  /\ result = "ok" => GhCan("delete", releases, tag_name)
              /\ releases' = IF result = "ok" THEN GhDelete(releases, tag_name)
                             ELSE releases
              /\ IF output = "raise" THEN Apply(CleanupReturn(f, "aborted"))
                 ELSE Apply(CleanupLoop(f, frame.i + 1))
    /\ UNCHANGED <<use_pypi, temp_files, prev, runs>>
    /\ UNCHANGED <<version_vars, notes_vars>>

(***************************************************************************)
(* The release identity and the notes of prepare_release_by_type.          *)
(***************************************************************************)
\* the runs of prepare_release_by_type that reach generate_release_notes
RenderCases ==
    [change_type : ChangeTypes, beta : BOOLEAN,
     current_version : {v \in {ProductionVersion, TestpypiVersion} \cup ManifestVersions :
                           parse_version(v).raised = "none"},
     commits : PipelineCommits \cup {<<>>},
     template_file : TemplateFiles]

\* lines 473-490 for each of them: the identity, and the notes rendered for it
Rendered ==
    {LET id == BuildIdentity(c.change_type,
                             calculate_next_versions(c.current_version).value, c.beta)
     IN  [case |-> c,
          id |-> id,
          notes |-> generate_release_notes(id.version, id.release_type,
                        c.current_version, c.commits, c.template_file)] :
        c \in RenderCases}

\* cleanup_old_drafts has returned and its caller has moved on: its locals are
\* gone, and the record of its attempts is dropped with them
CleanupLeft(f) ==
    [f EXCEPT !.cleanup = "none", !.listing = <<>>, !.i = 0,
              !.attempted = {}, !.failed = {}]

\* the identity, then generate_release_notes, which reads the template file; its
\* KeyError leaves prepare_release_by_type
RenderNotes ==
    /\ pc = "render"
    /\ \E template_file \in TemplateFiles :
          LET rendered == CHOOSE r \in Rendered :
                              r.case = [change_type |-> frame.change_type,
                                        beta |-> frame.beta,
                                        current_version |-> frame.current_version,
                                        commits |-> frame.commits,
                                        template_file |-> template_file]
              id == rendered.id
              notes == rendered.notes
              f == [Entered(Called(CleanupLeft(frame)), "generate_release_notes")
                       EXCEPT !.release_type = id.release_type,
                              !.version = id.version,
                              !.tag_name = id.tag_name,
                              !.title = id.title,
                              !.is_prerelease = id.is_prerelease]
          IN  IF notes.raised # "none"
              THEN Apply(Raise(f, notes.raised, "placeholder"))
              ELSE Apply(Goto("draft_list",
                              Entered([f EXCEPT !.body = notes.value,
                                                !.before = releases],
                                      "create_or_update_draft")))
    /\ UNCHANGED <<use_pypi, releases, temp_files, prev, runs>>
    /\ UNCHANGED <<version_vars, notes_vars>>

(***************************************************************************)
(* prepare_all_releases: the loop over release_types.                      *)
(***************************************************************************)
\* what templates/release-notes holds: nothing, a minor.md that names a placeholder
\* the renderer does not supply, or a beta_patch.md that uses supplied ones
TemplateDirs ==
    {<<>>,
     [stem \in {"minor"} |->
         <<Lit("# "), Field("version"), Lit(" by "), Field("author")>>],
     [stem \in {"beta_patch"} |->
         <<Lit("# "), Field("version"), Lit("\n"), Field("commit_summary")>>]}

\* the file load_release_template(release_type.replace("-", "_")) reads, <<>> when
\* there is none
TemplateFileOf(templates, release_type) ==
    LET stem == Replace(release_type, "-", "_")
    IN  IF stem \in DOMAIN templates THEN templates[stem] ELSE <<>>

\* one pass of the loop up to create_or_update_draft; the KeyError of
\* generate_release_notes leaves the loop and prepare_all_releases
RenderAll ==
    /\ pc = "render_all"
    /\ LET j == frame.k + 1
           id == LoopIdentity(release_types[j], frame.next_versions)
           notes == generate_release_notes(id.version, id.release_type,
                        frame.current_version, frame.commits,
                        TemplateFileOf(frame.templates, id.release_type))
           f == [Entered(Called(CleanupLeft(frame)), "generate_release_notes")
                    EXCEPT !.release_type = id.release_type,
                           !.version = id.version,
                           !.tag_name = id.tag_name,
                           !.title = id.title,
                           !.is_prerelease = id.is_prerelease,
                           !.existing_draft = FALSE]
       IN  IF notes.raised # "none"
           THEN Apply(Raise(f, notes.raised, "placeholder"))
           ELSE Apply(Goto("draft_list",
                           Entered([f EXCEPT !.body = notes.value,
                                             !.before = releases],
                                   "create_or_update_draft")))
    /\ UNCHANGED <<use_pypi, releases, temp_files, prev, runs>>
    /\ UNCHANGED <<version_vars, notes_vars>>

(***************************************************************************)
(* create_or_update_draft.                                                 *)
(***************************************************************************)
\* a search that compares the tag with the name of the release
ExistingDraft_ByName(listing, tag_name) ==
    \E i \in 1..Len(listing) : listing[i].isDraft /\ listing[i].name = tag_name

\* existing_draft: a listed release that is a draft and bears exactly the tag
ExistingDraft(listing, tag_name) ==
    \E i \in 1..Len(listing) : listing[i].isDraft /\ listing[i].tagName = tag_name

\* gh release list, then the search for a draft with the tag
DraftList ==
    /\ pc = "draft_list"
    /\ \E result \in SubprocessResults :
          LET f == DraftCalled(frame, result = "ok")
              output == run_gh_command(result)
              listing == Listing(releases)
          IN  CASE output = "output" ->
                       Apply(Goto("draft_write",
                           [f EXCEPT !.existing_draft =
                               ExistingDraft(listing, f.tag_name)]))
                [] output = "empty" -> Apply(Goto("draft_write", f))
                [] OTHER -> Apply(DraftReturn(f))
    /\ UNCHANGED <<use_pypi, releases, temp_files, prev, runs>>
    /\ UNCHANGED <<version_vars, notes_vars>>

\* the temporary files on disk after f.write(body) raised: the file was created
\* with delete=False and the unlink is in a try block not yet entered
WriteFailure(n) == n + 1

\* tempfile.NamedTemporaryFile(delete=False) and f.write(body)
DraftWrite ==
    /\ pc = "draft_write"
    /\ \E result \in {"ok", "raise"} :
          LET f == DraftCalled(frame, result = "ok")
          IN  IF result = "ok"
              THEN /\ temp_files' = temp_files + 1
                   /\ Apply(Goto("draft_command", f))
              ELSE /\ temp_files < MaxTempFiles
                   /\ temp_files' = WriteFailure(temp_files)
                   /\ Apply(DraftReturn(f))
    /\ UNCHANGED <<use_pypi, releases, prev, runs>>
    /\ UNCHANGED <<version_vars, notes_vars>>

\* gh release edit or gh release create, then os.unlink(body_file) in the finally
DraftCommand ==
    /\ pc = "draft_command"
    /\ \E result \in SubprocessResults :
          LET command == IF frame.existing_draft THEN "edit" ELSE "create"
              f == DraftCalled(frame, result = "ok")
          IN  /\ result = "ok" => GhCan(command, releases, frame.tag_name)
              /\ releases' =
                    IF result # "ok" THEN releases
                    ELSE IF frame.existing_draft
                    THEN GhEdit(releases, frame.tag_name, frame.title, frame.body,
                                frame.is_prerelease)
                    ELSE GhCreate(releases, frame.tag_name, frame.title, frame.body,
                                  frame.is_prerelease)
              /\ temp_files' = temp_files - 1
              /\ Apply(DraftReturn(f))
    /\ UNCHANGED <<use_pypi, prev, runs>>
    /\ UNCHANGED <<version_vars, notes_vars>>

(***************************************************************************)
(* The releases the repository holds before the first operation.           *)
(***************************************************************************)
InitReleasePool ==
    {Release("v1.0.9", "ADRI v1.0.9", FALSE, FALSE, "Published notes"),
     Release("candidate-minor-v1.1.0",
             "[rocket] ADRI v1.1.0 - Minor Release (DRAFT)", TRUE, FALSE, "Old notes"),
     Release("candidate-beta-patch-v1.0.10",
             "[test tube] ADRI v1.0.10-beta.1 - Beta Patch (DRAFT)", TRUE, TRUE,
             "Old notes"),
     Release("roadmap", "Roadmap", TRUE, FALSE, "Plans"),
     \* a candidate draft that was renamed and flagged pre-release on GitHub
     Release("candidate-patch-v1.0.10", "Patch candidate under review", TRUE, TRUE,
             "Reviewed notes")}

\* no two releases bear the same tag
TagsWellFormed(rs) ==
    \A i, j \in 1..Len(rs) :
        rs[i].tagName = rs[j].tagName => i = j

InitReleaseLists ==
    {rs \in UNION {[1..n -> InitReleasePool] : n \in 0..MaxInitReleases} :
        TagsWellFormed(rs)}

IdleRun ==
    /\ temp_files = 0
    /\ pc = "idle"
    /\ frame = NoFrame
    /\ prev = Summary(NoFrame)
    /\ outcome = NoOutcome
    /\ runs = 0

\* the state the other specifications keep the publisher in
NoRun ==
    /\ use_pypi = TRUE
    /\ releases = <<>>
    /\ IdleRun

(***************************************************************************)
(* The publisher called directly.                                          *)
(***************************************************************************)
DraftArguments ==
    {<<"candidate-minor-v1.1.0", "[rocket] ADRI v1.1.0 - Minor Release (DRAFT)",
       "New notes">>,
     <<"candidate-beta-patch-v1.0.10",
       "[test tube] ADRI v1.0.10-beta.1 - Beta Patch (DRAFT)", "Beta notes">>}

DraftInit ==
    /\ use_pypi = TRUE
    /\ releases \in InitReleaseLists
    /\ IdleRun
    /\ IdleVersion
    /\ IdleNotes

CallCreateOrUpdateDraft ==
    \E a \in DraftArguments, prerelease \in BOOLEAN :
        StartCreateOrUpdateDraft(a[1], a[2], a[3], prerelease)

DraftNext ==
    \/ CallCreateOrUpdateDraft
    \/ StartCleanupOldDrafts
    \/ CleanupList
    \/ CleanupDelete
    \/ DraftList
    \/ DraftWrite
    \/ DraftCommand

SpecDraft == DraftInit /\ [][DraftNext]_vars

(***************************************************************************)
(* The pipeline: prepare_release_by_type.                                  *)
(***************************************************************************)
Init ==
    /\ use_pypi \in BOOLEAN
    /\ releases \in InitReleaseLists
    /\ IdleRun
    /\ IdleVersion
    /\ IdleNotes

CallPrepareReleaseByType ==
    \E change_type \in ChangeTypes \cup {"hotfix"}, beta \in BOOLEAN,
       sync_version \in BOOLEAN :
        StartPrepareReleaseByType(change_type, beta, sync_version)

Next ==
    \/ CallPrepareReleaseByType
    \/ SyncVersionJson
    \/ PypiProduction
    \/ PypiTestpypi
    \/ Pyproject
    \/ CommitsApi
    \/ GitLog
    \/ CleanupList
    \/ CleanupDelete
    \/ RenderNotes
    \/ DraftList
    \/ DraftWrite
    \/ DraftCommand

Spec == Init /\ [][Next]_vars

(***************************************************************************)
(* One run of main in either mode, --type or all six release types, from   *)
(* any of the initial release lists as gh release list prints them: main   *)
(* calls one of the two, once.                                             *)
(***************************************************************************)
\* the tags of the pool as gh release list prints them: newest first
ListedOrder ==
    <<"candidate-beta-patch-v1.0.10", "candidate-patch-v1.0.10",
      "candidate-minor-v1.1.0", "v1.0.9", "roadmap">>

ListedAt(release) == CHOOSE p \in 1..Len(ListedOrder) : ListedOrder[p] = release.tagName

\* the initial release lists in that order
MainReleaseLists ==
    {rs \in InitReleaseLists :
        \A i, j \in 1..Len(rs) : i < j => ListedAt(rs[i]) < ListedAt(rs[j])}

MainInit ==
    /\ use_pypi \in BOOLEAN
    /\ releases \in MainReleaseLists
    /\ IdleRun
    /\ IdleVersion
    /\ IdleNotes

\* main without --type, --status and --sync
CallPrepareAllReleases ==
    /\ runs = 0
    /\ \E sync_version \in BOOLEAN, templates \in TemplateDirs :
          StartPrepareAllReleases(sync_version, templates)

\* main with --type: argparse accepts patch, minor and major only
CallMainByType ==
    /\ runs = 0
    /\ \E change_type \in ChangeTypes, beta \in BOOLEAN, sync_version \in BOOLEAN :
          StartPrepareReleaseByType(change_type, beta, sync_version)

MainNext ==
    \/ CallPrepareAllReleases
    \/ CallMainByType
    \/ SyncVersionJson
    \/ PypiProduction
    \/ PypiTestpypi
    \/ Pyproject
    \/ CommitsApi
    \/ GitLog
    \/ CleanupList
    \/ CleanupDelete
    \/ RenderNotes
    \/ RenderAll
    \/ DraftList
    \/ DraftWrite
    \/ DraftCommand

SpecMain == MainInit /\ [][MainNext]_vars

(***************************************************************************)
(* The version operations applied to every short string.                   *)
(***************************************************************************)
RECURSIVE JoinChars(_)
JoinChars(cs) == IF cs = <<>> THEN "" ELSE cs[1] \o JoinChars(Tail(cs))

VersionStrings ==
    {JoinChars(cs) : cs \in UNION {[1..n -> Alphabet] : n \in 0..MaxVersionLen}}

VersionInit ==
    /\ version_in \in VersionStrings
    /\ version_out = [op |-> "none", raised |-> "none", value |-> <<>>]
    /\ IdleNotes
    /\ NoRun

ParseVersion ==
    /\ version_out.op = "none"
    /\ version_out' = [op |-> "parse_version"] @@ parse_version(version_in)
    /\ UNCHANGED version_in
    /\ UNCHANGED <<notes_vars, run_vars>>

CalculateNextVersions ==
    /\ version_out.op = "none"
    /\ version_out' = [op |-> "calculate_next_versions"]
                          @@ calculate_next_versions(version_in)
    /\ UNCHANGED version_in
    /\ UNCHANGED <<notes_vars, run_vars>>

VersionNext == ParseVersion \/ CalculateNextVersions

SpecVersion == VersionInit /\ [][VersionNext]_vars

NotesStart == NotesInit /\ IdleVersion /\ NoRun

NotesNext == GenerateReleaseNotes /\ UNCHANGED <<version_vars, run_vars>>

SpecNotes == NotesStart /\ [][NotesNext]_vars

(***************************************************************************)
(* Claims about the commit summary (checked under SpecNotes).              *)
(***************************************************************************)
\* the lines of a text: text.split("\n")
RECURSIVE SplitLines(_)
SplitLines(text) ==
    IF \A p \in 1..Len(text) : CharAt(text, p) # "\n" THEN <<text>>
    ELSE LET p == CHOOSE q \in 1..Len(text) :
                      /\ CharAt(text, q) = "\n"
                      /\ \A r \in 1..(q - 1) : CharAt(text, r) # "\n"
         IN  <<SubSeq(text, 1, p - 1)>> \o SplitLines(SubSeq(text, p + 1, Len(text)))

EndsWith(s, suffix) ==
    Len(s) >= Len(suffix) /\ SubSeq(s, Len(s) - Len(suffix) + 1, Len(s)) = suffix

\* line is the bullet of commit: its message (at least its first 57 characters)
\* and then its hash in parentheses
IsBulletOf(line, commit) ==
    LET kept == IF Len(commit.message) > 57 THEN 57 ELSE Len(commit.message)
    IN  /\ StartsWith(line, "* " \o SubSeq(commit.message, 1, kept))
        /\ EndsWith(line, " (" \o commit.sha \o ")")

\* C10: the commit summary holds one bullet for each of at most the first 8
\* commits, in the order given; with more than 8 commits exactly one more line
\* follows, stating the number omitted (len - 8); with no commits the summary is
\* the single fallback line and there are no bullets.
C10_CommitSummary ==
    notes_out.op = "generate_release_notes" =>
        LET commits == notes_in.commits
            n == Len(commits)
            shown == IF n > 8 THEN 8 ELSE n
            lines == SplitLines(notes_out.commit_summary)
        IN  IF n = 0
            THEN /\ lines = <<"* See commit history for detailed changes">>
                 /\ notes_out.commit_lines = <<>>
            ELSE /\ Len(notes_out.commit_lines) = shown
                 /\ Len(lines) = 2 + shown + (IF n > 8 THEN 1 ELSE 0)
                 /\ lines[1] = "Recent Changes:" /\ lines[2] = ""
                 /\ \A i \in 1..shown :
                        /\ lines[2 + i] = notes_out.commit_lines[i]
                        /\ IsBulletOf(lines[2 + i], commits[i])
                 /\ n > 8 =>
                        lines[2 + shown + 1] =
                            "* ... and " \o ToString(n - 8) \o " more commits"

\* nine commits were summarised: eight bullets and the line for the one omitted
C10_Witness ==
    /\ notes_out.op = "generate_release_notes"
    /\ Len(notes_in.commits) = 9
    /\ Len(notes_out.commit_lines) = 8
    /\ EndsWith(notes_out.commit_summary, "\n* ... and 1 more commits")
    /\ notes_out.raised = "none"

(***************************************************************************)
(* Claims about the version operations (checked under SpecVersion).        *)
(***************************************************************************)
AllDigits(s) == \A p \in 1..Len(s) : IsDigit(CharAt(s, p))

\* the ways s begins with digits "." digits "." digits, the third run taken whole:
\* <<i, j, k>> are the positions of the two dots and the end of the third run
LeadingTriples(s) ==
    {t \in (1..Len(s)) \X (1..Len(s)) \X (1..Len(s) + 1) :
        /\ 1 < t[1] /\ t[1] + 1 < t[2] /\ t[2] + 1 < t[3]
        /\ CharAt(s, t[1]) = "." /\ CharAt(s, t[2]) = "."
        /\ AllDigits(SubSeq(s, 1, t[1] - 1))
        /\ AllDigits(SubSeq(s, t[1] + 1, t[2] - 1))
        /\ AllDigits(SubSeq(s, t[2] + 1, t[3] - 1))
        /\ (t[3] <= Len(s) => ~IsDigit(CharAt(s, t[3])))}

\* C1: once the current version parses to (major, minor, patch),
\* calculate_next_versions does not fail and returns exactly the three keys
\* patch, minor, major with "major.minor.(patch+1)", "major.(minor+1).0" and
\* "(major+1).0.0" in decimal.
C1_NextVersions ==
    version_out.op = "calculate_next_versions" =>
        \A t \in LeadingTriples(version_in) :
            LET major == StrToInt(SubSeq(version_in, 1, t[1] - 1))
                minor == StrToInt(SubSeq(version_in, t[1] + 1, t[2] - 1))
                patch == StrToInt(SubSeq(version_in, t[2] + 1, t[3] - 1))
            IN  /\ version_out.raised = "none"
                /\ DOMAIN version_out.value = {"patch", "minor", "major"}
                /\ version_out.value["patch"] =
                       ToString(major) \o "." \o ToString(minor) \o "." \o ToString(patch + 1)
                /\ version_out.value["minor"] =
                       ToString(major) \o "." \o ToString(minor + 1) \o ".0"
                /\ version_out.value["major"] = ToString(major + 1) \o ".0.0"

\* the next versions of "1.0.9" were calculated: the patch bump carries into "1.0.10"
C1_Witness ==
    /\ version_out.op = "calculate_next_versions"
    /\ version_in = "1.0.9"
    /\ version_out.raised = "none"
    /\ version_out.value = [patch |-> "1.0.10", minor |-> "1.1.0", major |-> "2.0.0"]

\* C2: parse_version returns (X, Y, Z) for every string that begins with
\* digits.digits.digits, whatever follows the third group, and raises the format
\* error (ValueError) for every string that does not begin so.
C2_ParseVersion ==
    version_out.op = "parse_version" =>
        /\ \A t \in LeadingTriples(version_in) :
              /\ version_out.raised = "none"
              /\ version_out.value = <<StrToInt(SubSeq(version_in, 1, t[1] - 1)),
                                       StrToInt(SubSeq(version_in, t[1] + 1, t[2] - 1)),
                                       StrToInt(SubSeq(version_in, t[2] + 1, t[3] - 1))>>
        /\ LeadingTriples(version_in) = {} =>
              /\ version_out.raised = "ValueError"
              /\ version_out.value = <<>>

\* a version with a suffix after the third group was parsed to its numeric triple
C2_Witness ==
    /\ version_out.op = "parse_version"
    /\ version_in = "1.0.9-"
    /\ version_out.raised = "none"
    /\ version_out.value = <<1, 0, 9>>


(***************************************************************************)
(* Claims about prepare_release_by_type (checked under Spec).              *)
(***************************************************************************)
ByTypeReturned ==
    /\ pc = "idle"
    /\ outcome.op = "prepare_release_by_type"
    /\ outcome.raised = "none"

\* C3: for change type t and computed base version b, prepare_release_by_type
\* derives, without beta, version b, tag "candidate-t-vb" and no pre-release flag;
\* with beta, version b-beta.1, tag "candidate-beta-t-vb" (of the base version) and
\* the pre-release flag.  The same values go to create_or_update_draft.
C3_Identity ==
    ByTypeReturned =>
        LET t == frame.change_type
            b == frame.next_versions[t]
            r == outcome.result
        IN  /\ t \in {"patch", "minor", "major"}
            /\ b = calculate_next_versions(frame.current_version).value[t]
            /\ r.version = (IF frame.beta THEN b \o "-beta.1" ELSE b)
            /\ r.tag_name = (IF frame.beta THEN "candidate-beta-" \o t \o "-v" \o b
                             ELSE "candidate-" \o t \o "-v" \o b)
            /\ r.is_prerelease = frame.beta
            /\ frame.version = r.version
            /\ frame.tag_name = r.tag_name
            /\ frame.is_prerelease = r.is_prerelease

\* a beta minor release of 1.0.9 was prepared and its draft created
C3_Witness ==
    /\ ByTypeReturned
    /\ frame.change_type = "minor" /\ frame.beta
    /\ frame.current_version = "1.0.9"
    /\ outcome.result.version = "1.1.0-beta.1"
    /\ outcome.result.tag_name = "candidate-beta-minor-v1.1.0"
    /\ outcome.result.is_prerelease
    /\ \E i \in 1..Len(releases) :
          /\ releases[i].tagName = "candidate-beta-minor-v1.1.0"
          /\ releases[i].isDraft /\ releases[i].isPrerelease

\* C4: called with a change type outside patch, minor, major,
\* prepare_release_by_type fails with the invalid-argument error before any
\* external call is made and before any version arithmetic.
C4_InvalidTypeFirst ==
    (/\ pc = "idle"
     /\ outcome.op = "prepare_release_by_type"
     /\ frame.change_type \notin {"patch", "minor", "major"})
        => /\ outcome.raised = "ValueError"
           /\ outcome.message = "Invalid change type"
           /\ ~frame.external
           /\ "calculate_next_versions" \notin frame.stages

\* C6: when every version source fails (the package index raises or holds no
\* version, the manifest is missing or unparsable) the run ends with an error and
\* reaches neither the next-version calculation nor the cleanup nor the
\* publication and changes no release; no stage of the pipeline runs without a
\* version that a source returned, and none after the calculation with an empty one.
C6_NoVersionNoPipeline ==
    LET Later == {"commits_api", "git_log", "cleanup_list", "cleanup_delete",
                  "render", "draft_list", "draft_write", "draft_command"}
    IN  frame.op = "prepare_release_by_type" =>
            /\ (pc = "idle" /\ ~frame.resolved) =>
                  /\ outcome.raised \in {"FileNotFoundError", "RuntimeError", "KeyError"}
                  /\ frame.stages = {}
                  /\ frame.cleanup = "none"
                  /\ frame.attempted = {}
            /\ (frame.stages # {} \/ pc \in Later) => frame.resolved
            /\ (frame.stages \ {"calculate_next_versions"} # {} \/ pc \in Later) =>
                  frame.current_version # ""

\* the package index raised or held no version, the manifest was missing, and the
\* run ended with the error
C6_Witness ==
    /\ pc = "idle"
    /\ outcome.op = "prepare_release_by_type"
    /\ use_pypi
    /\ ~frame.resolved
    /\ frame.external
    /\ outcome.raised = "FileNotFoundError"
    /\ frame.stages = {}

\* C8: cleanup_old_drafts attempts the deletion of every listed draft whose name
\* contains "ADRI v", whatever its tag, and of nothing else; a deletion that fails
\* does not end the loop (the next such draft gets its attempt), and the pipeline
\* that called the cleanup goes on to the release notes however the cleanup ended.
C8_CleanupAttemptsAll ==
    LET listing == frame.listing
        Matches(i) == listing[i].isDraft /\ Contains(listing[i].name, "ADRI v")
        LaterMatches(i) == {j \in (i + 1)..Len(listing) : Matches(j)}
    IN  /\ frame.cleanup = "returned" =>
              frame.attempted = {i \in 1..Len(listing) : Matches(i)}
        /\ frame.cleanup \in {"returned", "aborted"} =>
              /\ \A i \in frame.attempted : Matches(i)
              /\ \A i \in frame.failed :
                    LaterMatches(i) # {} => Least(LaterMatches(i)) \in frame.attempted
              /\ frame.op = "prepare_release_by_type" =>
                    (pc = "render" /\ outcome.raised = "none")

\* a deletion failed, a later old draft was still attempted, the cleanup returned
\* and prepare_release_by_type is about to render the notes
C8_Witness ==
    /\ pc = "render"
    /\ frame.op = "prepare_release_by_type"
    /\ frame.cleanup = "returned"
    /\ \E i \in frame.failed : \E j \in frame.attempted : j > i

(***************************************************************************)
(* Claims about create_or_update_draft (checked under SpecDraft).          *)
(***************************************************************************)
DraftsTagged(rs, tag) == {i \in 1..Len(rs) : rs[i].isDraft /\ rs[i].tagName = tag}

\* two calls in a row with the same arguments, every external call succeeding
SameCallTwice ==
    /\ pc = "idle"
    /\ frame.op = "create_or_update_draft"
    /\ prev.op = "create_or_update_draft"
    /\ prev.tag_name = frame.tag_name /\ prev.title = frame.title
    /\ prev.body = frame.body /\ prev.is_prerelease = frame.is_prerelease
    /\ prev.draft_ok /\ frame.draft_ok

\* C5 as stated: from any release list, two identical calls in a row whose
\* external calls succeed leave exactly one draft with the tag.
C5_OneDraftFromAnyList ==
    SameCallTwice => Cardinality(DraftsTagged(releases, frame.tag_name)) = 1

\* C5 amended: from a release list in which at most one draft bears the tag, two
\* identical calls in a row whose external calls succeed leave exactly one draft
\* with the tag; the second call finds a draft and edits it.
C5_OneDraft ==
    (SameCallTwice /\ prev.drafts_before <= 1) =>
        /\ Cardinality(DraftsTagged(releases, frame.tag_name)) = 1
        /\ frame.existing_draft
        /\ Len(releases) = Len(frame.before)

\* the first call created the draft and the second edited it
C5_Witness ==
    /\ SameCallTwice
    /\ prev.drafts_before = 0
    /\ frame.existing_draft
    /\ Cardinality(DraftsTagged(releases, frame.tag_name)) = 1

\* C7: with every external call succeeding, a listed draft with exactly the tag is
\* updated in place to the title, notes, draft flag and pre-release flag of the
\* arguments and no release is added; without one, exactly one new draft with those
\* attributes is created.
C7_UpdateOrCreate ==
    (pc = "idle" /\ frame.op = "create_or_update_draft" /\ frame.draft_ok) =>
        LET before == frame.before
            wanted == Release(frame.tag_name, frame.title, TRUE, frame.is_prerelease,
                              frame.body)
        IN  IF DraftsTagged(before, frame.tag_name) # {}
            THEN \E i \in DraftsTagged(before, frame.tag_name) :
                     releases = [before EXCEPT ![i] = wanted]
            ELSE \E j \in 1..Len(releases) :
                     /\ releases[j] = wanted
                     /\ before = SubSeq(releases, 1, j - 1)
                                     \o SubSeq(releases, j + 1, Len(releases))

\* C9: after create_or_update_draft, on every path, no temporary notes file is
\* left on disk.
C9_NoTempFileLeft ==
    (pc = "idle" /\ frame.op = "create_or_update_draft") => temp_files = 0

(***************************************************************************)
(* Claims about the rendering of a commit message (checked under SpecNotes). *)
(***************************************************************************)
\* the message part of a bullet "* message (sha)"
MessageOf(line, commit) == SubSeq(line, 3, Len(line) - Len(commit.sha) - 3)

\* C11: in the commit summary a message longer than 60 characters is rendered as
\* its first 57 characters and a three-character ellipsis, 60 characters before the
\* "(hash)" suffix; a message of 60 characters or fewer is rendered unchanged; no
\* rendered message is longer than 60 characters.
C11_MessageTruncation ==
    notes_out.op = "generate_release_notes" =>
        \A i \in 1..Len(notes_out.commit_lines) :
            LET commit == notes_in.commits[i]
                line == notes_out.commit_lines[i]
                shown == MessageOf(line, commit)
            IN  /\ line = "* " \o shown \o " (" \o commit.sha \o ")"
                /\ Len(shown) <= 60
                /\ IF Len(commit.message) > 60
                   THEN /\ Len(shown) = 60
                        /\ SubSeq(shown, 1, 57) = SubSeq(commit.message, 1, 57)
                        /\ SubSeq(shown, 58, 60) = "..."
                   ELSE shown = commit.message

\* a message of 61 characters was cut to 57 and the ellipsis, and one of exactly 60
\* was left whole
C11_Witness ==
    /\ notes_out.op = "generate_release_notes"
    /\ Len(notes_out.commit_lines) >= 2
    /\ Len(notes_in.commits[1].message) = 61
    /\ Len(MessageOf(notes_out.commit_lines[1], notes_in.commits[1])) = 60
    /\ EndsWith(MessageOf(notes_out.commit_lines[1], notes_in.commits[1]), "...")
    /\ Len(notes_in.commits[2].message) = 60
    /\ MessageOf(notes_out.commit_lines[2], notes_in.commits[2])
           = notes_in.commits[2].message

(***************************************************************************)
(* Claims about a run of main in either mode (checked under SpecMain).     *)
(***************************************************************************)
AllReleasesOver ==
    /\ pc = "idle"
    /\ frame.op = "prepare_all_releases"

\* the template of pass j of the loop renders without an error
RendersCorrectly(j) ==
    LET id == LoopIdentity(release_types[j], frame.next_versions)
    IN  generate_release_notes(id.version, id.release_type, frame.current_version,
            frame.commits, TemplateFileOf(frame.templates, id.release_type)).raised
            = "none"

\* C12: a template that names a placeholder the renderer does not supply makes the
\* render fail with an error, and the error is fatal for that render only: in the
\* all-six mode every release type whose template renders correctly is still
\* rendered and handed to create_or_update_draft, the ones after the failing one
\* included.
C12_RenderErrorLocal ==
    (AllReleasesOver /\ "generate_release_notes" \in frame.stages) =>
        /\ \A j \in 1..NumReleaseTypes : ~RendersCorrectly(j) => outcome.raised = "KeyError"
        /\ \A j \in 1..NumReleaseTypes : RendersCorrectly(j) => j <= frame.k

\* the drafts of this project
ProjectDrafts ==
    {i \in 1..Len(releases) : releases[i].isDraft /\ Contains(releases[i].name, "ADRI v")}

\* C13: a run of the all-six mode in which every gh release command and every write
\* of a notes file succeeds ends with exactly six drafts of this project, one for
\* each of patch, minor, major, normal and beta, with six distinct tags, the beta
\* ones flagged pre-release and the normal ones not.
C13_SixDrafts ==
    (AllReleasesOver /\ outcome.raised = "none" /\ frame.draft_ok) =>
        LET next == calculate_next_versions(frame.current_version).value
            Tag(t, beta) == IF beta THEN "candidate-beta-" \o t \o "-v" \o next[t]
                            ELSE "candidate-" \o t \o "-v" \o next[t]
        IN  /\ Cardinality(ProjectDrafts) = 6
            /\ \A i, j \in ProjectDrafts :
                   releases[i].tagName = releases[j].tagName => i = j
            /\ \A t \in {"patch", "minor", "major"}, beta \in BOOLEAN :
                   \E i \in ProjectDrafts :
                       /\ releases[i].tagName = Tag(t, beta)
                       /\ releases[i].isPrerelease = beta

\* the releases that are not drafts, in their order
RECURSIVE Published(_)
Published(rs) ==
    IF rs = <<>> THEN <<>>
    ELSE (IF rs[1].isDraft THEN <<>> ELSE <<rs[1]>>) \o Published(Tail(rs))

RemoveAt(rs, i) == SubSeq(rs, 1, i - 1) \o SubSeq(rs, i + 1, Len(rs))

ChangeTypeOf(release_type) == ReplaceText(release_type, "beta-", "")

\* C15: for the same current version both modes hand create_or_update_draft the
\* same identity: the tag, title, version, pre-release flag and release type that
\* prepare_all_releases passes for an entry of release_types are those that
\* prepare_release_by_type derives for its change type and beta flag, and the other
\* way round.
C15_SameIdentity ==
    (/\ pc \in {"draft_list", "draft_write", "draft_command"}
     /\ frame.op \in {"prepare_release_by_type", "prepare_all_releases"}) =>
        LET Passed == [release_type |-> frame.release_type, version |-> frame.version,
                       tag_name |-> frame.tag_name, title |-> frame.title,
                       is_prerelease |-> frame.is_prerelease]
            by_type == BuildIdentity(ChangeTypeOf(frame.release_type),
                                     frame.next_versions,
                                     StartsWith(frame.release_type, "beta-"))
            entries == {j \in 1..NumReleaseTypes :
                           release_types[j].release_type = frame.release_type}
        IN  /\ Passed = by_type
            /\ Cardinality(entries) = 1
            /\ \A j \in entries :
                   Passed = LoopIdentity(release_types[j], frame.next_versions)

\* the loop of prepare_all_releases hands over the beta minor release of 1.0.9
C15_Witness ==
    /\ pc = "draft_list"
    /\ frame.op = "prepare_all_releases"
    /\ frame.k = 4
    /\ frame.release_type = "beta-minor"
    /\ frame.version = "1.1.0-beta.1"
    /\ frame.tag_name = "candidate-beta-minor-v1.1.0"
    /\ frame.title = "[test tube] ADRI v1.1.0-beta.1 - Beta Minor (DRAFT)"
    /\ frame.is_prerelease

====
